---- MODULE Spec2Model ----
(***************************************************************************)
(* ProxyService::ProxyHandler (proxygen/example/http_server/ProxyHandler.cpp) *)
(* One handler instance relays one client request to one upstream.  The    *)
(* handler is single threaded: every callback runs to completion, so each  *)
(* callback is one action.  A callback that calls into the library and is  *)
(* re-entered before it returns (txn_->sendAbort() detaching the upstream  *)
(* transaction, connector_.connect() completing inline) is modelled inside *)
(* the action of the outer callback.                                       *)
(*                                                                         *)
(* Handlers are operators from a state record to the set of states the     *)
(* handler can leave behind; an action picks one of them.                  *)
(*                                                                         *)
(* What the libraries deliver (proxygen, folly; not part of this source):  *)
(*  - the client sends headers, body chunks, then EOM; the downstream      *)
(*    transaction ends with exactly one of onError / requestComplete, the  *)
(*    latter once both directions ended or the handler aborted it;         *)
(*  - a deleted instance receives no callback (its connector, transaction  *)
(*    handler and socket callbacks die with it);                           *)
(*  - an upstream transaction that was aborted or failed only detaches;    *)
(*  - upstreamSock_ is never assigned in this source: the raw-connection   *)
(*    upstream of the design is introduced by OpenUpstreamSock.            *)
(***************************************************************************)
EXTENDS Integers, Sequences, FiniteSets, TLC

\* ProxyHandler.cpp:31-33
READS_SHUTDOWN == 1
WRITES_SHUTDOWN == 2
CLOSED == 3

\* bounds of the model
MaxBody == 1        \* body chunks delivered per direction
MaxDestroy == 2     \* destructions counted (2 = a double delete was seen)

Methods == {"GET", "POST", "OTHER"}

VARIABLES
  \* ---- fields of ProxyHandler
  alive,                    \* the instance has not been deleted
  clientTerminated_,
  txn_,                     \* upstream transaction attached (txn_ != nullptr)
  session_,                 \* session_ holds a SessionWrapper
  upstreamSock_,            \* raw upstream socket exists
  sockStatus_,              \* bitmask READS_SHUTDOWN | WRITES_SHUTDOWN
  upstreamEgressPaused_,
  downstreamIngressPaused_,
  need_forward_,
  method,                   \* request_->getMethod(), "none" before onRequest
  \* ---- downstream transaction (client side)
  clientPhase,              \* "AwaitingHeaders", "AwaitingBody", "EOM"
  clientBodies,             \* body chunks the client sent before its EOM
  dsLog,                    \* calls made on downstream_: "H","B","E","A"
  dsIngressPaused,          \* downstream_ ingress is paused
  \* ---- connector
  connectCalls,             \* number of connector_.connect() calls
  connectPending,           \* a connect attempt is outstanding
  \* ---- upstream transaction (server side)
  usLog,                    \* calls made on txn_: "H","B","E","A"
  usPhase,                  \* "none","open","hdr","eom": response progress
  usBodies,                 \* response body chunks delivered
  usErrored,                \* the transaction reported an error
  usEgressPaused,           \* upstream signalled egress paused, not yet resumed
  usIngressPaused,          \* txn_->pauseIngress() in force
  \* ---- raw upstream socket
  sockConnected,
  readCB,                   \* read callback installed
  sockReads,                \* readDataAvailable deliveries
  \* ---- history
  destroyCount,             \* executions of `delete this`
  checks,                   \* executions of checkForShutdown in the last callback
  uaf,                      \* checkForShutdown ran on a deleted instance
  crashed,                  \* a CHECK failed
  respCount,                \* immediate responses sent by onRequest / onEOM
  gwCount,                  \* gateway-error responses sent by connectError
  errAt,                    \* Len(dsLog) when onError ran, -1 before
  lastEvent                 \* the callback that ran last

vars == << alive, clientTerminated_, txn_, session_, upstreamSock_, sockStatus_,
           upstreamEgressPaused_, downstreamIngressPaused_, need_forward_, method,
           clientPhase, clientBodies, dsLog, dsIngressPaused,
           connectCalls, connectPending,
           usLog, usPhase, usBodies, usErrored, usEgressPaused, usIngressPaused,
           sockConnected, readCB, sockReads,
           destroyCount, checks, uaf, crashed, respCount, gwCount, errAt, lastEvent >>

\* the current state as a record
cur ==
  [ alive |-> alive, clientTerminated_ |-> clientTerminated_, txn_ |-> txn_,
    session_ |-> session_, upstreamSock_ |-> upstreamSock_, sockStatus_ |-> sockStatus_,
    upstreamEgressPaused_ |-> upstreamEgressPaused_,
    downstreamIngressPaused_ |-> downstreamIngressPaused_,
    need_forward_ |-> need_forward_, method |-> method,
    clientPhase |-> clientPhase, clientBodies |-> clientBodies, dsLog |-> dsLog,
    dsIngressPaused |-> dsIngressPaused,
    connectCalls |-> connectCalls, connectPending |-> connectPending,
    usLog |-> usLog, usPhase |-> usPhase, usBodies |-> usBodies, usErrored |-> usErrored,
    usEgressPaused |-> usEgressPaused, usIngressPaused |-> usIngressPaused,
    sockConnected |-> sockConnected, readCB |-> readCB, sockReads |-> sockReads,
    destroyCount |-> destroyCount, checks |-> checks, uaf |-> uaf, crashed |-> crashed,
    respCount |-> respCount, gwCount |-> gwCount, errAt |-> errAt, lastEvent |-> lastEvent ]

\* the next state is the record s
Commit(s) ==
  /\ alive' = s.alive
  /\ clientTerminated_' = s.clientTerminated_
  /\ txn_' = s.txn_
  /\ session_' = s.session_
  /\ upstreamSock_' = s.upstreamSock_
  /\ sockStatus_' = s.sockStatus_
  /\ upstreamEgressPaused_' = s.upstreamEgressPaused_
  /\ downstreamIngressPaused_' = s.downstreamIngressPaused_
  /\ need_forward_' = s.need_forward_
  /\ method' = s.method
  /\ clientPhase' = s.clientPhase
  /\ clientBodies' = s.clientBodies
  /\ dsLog' = s.dsLog
  /\ dsIngressPaused' = s.dsIngressPaused
  /\ connectCalls' = s.connectCalls
  /\ connectPending' = s.connectPending
  /\ usLog' = s.usLog
  /\ usPhase' = s.usPhase
  /\ usBodies' = s.usBodies
  /\ usErrored' = s.usErrored
  /\ usEgressPaused' = s.usEgressPaused
  /\ usIngressPaused' = s.usIngressPaused
  /\ sockConnected' = s.sockConnected
  /\ readCB' = s.readCB
  /\ sockReads' = s.sockReads
  /\ destroyCount' = s.destroyCount
  /\ checks' = s.checks
  /\ uaf' = s.uaf
  /\ crashed' = s.crashed
  /\ respCount' = s.respCount
  /\ gwCount' = s.gwCount
  /\ errAt' = s.errAt
  /\ lastEvent' = s.lastEvent

\* state after construction (ProxyHandler.cpp:38-39; members default-initialised)
Init ==
  /\ alive = TRUE
  /\ clientTerminated_ = FALSE
  /\ txn_ = FALSE
  /\ session_ = FALSE
  /\ upstreamSock_ = FALSE
  /\ sockStatus_ = 0
  /\ upstreamEgressPaused_ = FALSE
  /\ downstreamIngressPaused_ = FALSE
  /\ need_forward_ = FALSE
  /\ method = "none"
  /\ clientPhase = "AwaitingHeaders"
  /\ clientBodies = 0
  /\ dsLog = << >>
  /\ dsIngressPaused = FALSE
  /\ connectCalls = 0
  /\ connectPending = FALSE
  /\ usLog = << >>
  /\ usPhase = "none"
  /\ usBodies = 0
  /\ usErrored = FALSE
  /\ usEgressPaused = FALSE
  /\ usIngressPaused = FALSE
  /\ sockConnected = FALSE
  /\ readCB = FALSE
  /\ sockReads = 0
  /\ destroyCount = 0
  /\ checks = 0
  /\ uaf = FALSE
  /\ crashed = FALSE
  /\ respCount = 0
  /\ gwCount = 0
  /\ errAt = -1
  /\ lastEvent = "none"

----------------------------------------------------------------------------
\* helpers

Has(log, x) == \E i \in 1..Len(log) : log[i] = x

Count(log, x) == Cardinality({i \in 1..Len(log) : log[i] = x})

\* calls on downstream_ (ResponseHandler / HTTPTransaction of the client)
DsSend(s, items) == [s EXCEPT !.dsLog = @ \o items]

\* calls on txn_ (the upstream transaction)
UsSend(s, items) == [s EXCEPT !.usLog = @ \o items]

\* entry of callback `name`
Ev(s, name) == [s EXCEPT !.lastEvent = name, !.checks = 0]

\* a | b on the two status bits
BitOr(a, b) ==
  (IF a % 2 = 1 \/ b % 2 = 1 THEN 1 ELSE 0) +
  (IF (a \div 2) % 2 = 1 \/ (b \div 2) % 2 = 1 THEN 2 ELSE 0)

----------------------------------------------------------------------------
\* ProxyHandler::checkForShutdown (226-233).  On a deleted instance the
\* fields it reads are indeterminate: it may or may not delete again.
\* checkForShutdown that forgets the attached transaction
ShutdownCond_ignoresTxn(s) ==
  /\ s.clientTerminated_
  /\ (~s.upstreamSock_ \/ (s.sockStatus_ = CLOSED /\ ~s.upstreamEgressPaused_))

ShutdownCond(s) ==
  /\ s.clientTerminated_
  /\ ~s.txn_
  /\ (~s.upstreamSock_ \/ (s.sockStatus_ = CLOSED /\ ~s.upstreamEgressPaused_))

Bump(n) == IF n < MaxDestroy THEN n + 1 ELSE n

checkForShutdown(s) ==
  IF s.alive
    THEN IF ShutdownCond(s)
           THEN { [s EXCEPT !.alive = FALSE, !.destroyCount = Bump(@), !.checks = @ + 1] }
           ELSE { [s EXCEPT !.checks = @ + 1] }
    ELSE { [s EXCEPT !.uaf = TRUE, !.checks = @ + 1],
           [s EXCEPT !.uaf = TRUE, !.checks = @ + 1, !.destroyCount = Bump(@)] }

\* ProxyHandler::abortDownstream (220-224)
abortDownstream(s) ==
  IF ~s.clientTerminated_ THEN DsSend(s, <<"A">>) ELSE s

\* ProxyHandler::detachServerTransaction (165-168)
detachServerTransaction(s) ==
  checkForShutdown([s EXCEPT !.txn_ = FALSE])

----------------------------------------------------------------------------
\* callbacks of the upstream transaction

\* CHECK(!clientTerminated_) (139, 145)
CHECKnotTerminated(s) == [s EXCEPT !.crashed = s.clientTerminated_]

\* ProxyHandler::onServerHeadersComplete (138-142)
onServerHeadersComplete(s) ==
  IF s.clientTerminated_ THEN { CHECKnotTerminated(s) } ELSE { DsSend(s, <<"H">>) }

\* ProxyHandler::onServerBody (144-151)
onServerBody(s) ==
  IF s.clientTerminated_ THEN { CHECKnotTerminated(s) } ELSE { DsSend(s, <<"B">>) }

\* ProxyHandler::onServerEOM (153-163)
onServerEOM(s) ==
  LET s1 == DsSend(s, <<"B">>)
  IN  { IF ~s1.clientTerminated_ THEN DsSend(s1, <<"E">>) ELSE s1 }

\* onServerError that aborts downstream without testing clientTerminated_
onServerError_alwaysAbort(s) == { DsSend(s, <<"A">>) }

\* ProxyHandler::onServerError (170-173)
onServerError(s) == { abortDownstream(s) }

\* onServerEgressPaused that does not pause the client
onServerEgressPaused_noPause(s) == { s }

\* ProxyHandler::onServerEgressPaused (175-179)
onServerEgressPaused(s) ==
  { IF ~s.clientTerminated_ THEN [s EXCEPT !.dsIngressPaused = TRUE] ELSE s }

\* ProxyHandler::onServerEgressResumed (181-185)
onServerEgressResumed(s) ==
  { IF ~s.clientTerminated_ THEN [s EXCEPT !.dsIngressPaused = FALSE] ELSE s }

\* ProxyHandler::readEOF (255-258)
readEOF(s) ==
  onServerEOM([s EXCEPT !.sockStatus_ = BitOr(@, READS_SHUTDOWN)])

\* upstreamSock_.reset() (199, 263, 282): destroying the socket closes it,
\* and a socket that still has its read callback may deliver readEOF to it
\* before reset() returns
resetSock(s) ==
  LET s1 == [s EXCEPT !.upstreamSock_ = FALSE, !.sockConnected = FALSE, !.readCB = FALSE]
  IN  { s1 } \cup
      (IF s.upstreamSock_ /\ s.sockConnected /\ s.readCB /\ s.sockStatus_ % 2 = 0
         THEN readEOF(s1) ELSE {})

----------------------------------------------------------------------------
\* callbacks of the client side

\* ResponseBuilder(downstream_).status(..).body(..).sendWithEOM() (51-54, 70-73)
sendImmediate(s) ==
  [DsSend(s, <<"H", "B", "E">>) EXCEPT !.respCount = @ + 1]

\* ProxyHandler::onRequest (44-57)
onRequest(s, m) ==
  LET s1 == [s EXCEPT !.method = m]
  IN  IF m # "GET" /\ m # "POST" THEN { sendImmediate(s1) } ELSE { s1 }

\* ProxyHandler::onBody (60-63): the chunk is dropped
onBody(s) == { s }

\* ProxyHandler::connectSuccess(HTTPUpstreamSession*) (119-126)
connectSuccess(s) ==
  { [UsSend(s, <<"H">>) EXCEPT !.session_ = TRUE, !.txn_ = TRUE, !.usPhase = "open",
                             !.connectPending = FALSE, !.dsIngressPaused = FALSE] }

\* ProxyHandler::connectError (128-136)
connectError(s) ==
  LET s1 == [s EXCEPT !.connectPending = FALSE]
  IN  IF ~s1.clientTerminated_
        THEN { [DsSend(s1, <<"H", "E">>) EXCEPT !.gwCount = @ + 1] }
        ELSE checkForShutdown(abortDownstream(s1))

\* connector_.connect(...) (82-83): the attempt stays outstanding, or the
\* connector calls connectSuccess / connectError before connect() returns
connect(s) ==
  LET s1 == [s EXCEPT !.connectCalls = @ + 1]
  IN  { [s1 EXCEPT !.connectPending = TRUE] } \cup connectSuccess(s1) \cup connectError(s1)

\* onEOM that ends the upstream message before sending its body
forwardBodyAndEOM_eomFirst(s) ==
  LET s1 == IF s.txn_ THEN UsSend(s, <<"E">>) ELSE s
  IN  { IF s1.txn_ THEN UsSend(s1, <<"B">>) ELSE s1 }

\* ProxyHandler::onEOM (85-101), after connect() returned
forwardBodyAndEOM(s) ==
  LET s1 == IF s.txn_ THEN UsSend(s, <<"B">>) ELSE s
  IN  { IF s1.txn_ THEN UsSend(s1, <<"E">>) ELSE s1 }

\* ProxyHandler::onEOM (66-102); fwd is what ServiceRequest (104-114) stores
\* in need_forward_
onEOM(s, fwd) ==
  LET s1 == [s EXCEPT !.need_forward_ = fwd]
  IN  IF ~s1.need_forward_
        THEN { sendImmediate(s1) }
        ELSE UNION { forwardBodyAndEOM(s2) : s2 \in connect([s1 EXCEPT !.dsIngressPaused = TRUE]) }

\* ProxyHandler::requestComplete (187-190)
requestComplete(s) ==
  checkForShutdown([s EXCEPT !.clientTerminated_ = TRUE])

\* txn_->sendAbort() (197): the transaction may detach before the call returns
sendAbortUpstream(s) ==
  LET s1 == UsSend(s, <<"A">>)
  IN  { s1 } \cup detachServerTransaction(s1)

\* ProxyHandler::onError (192-202)
onError(s) ==
  LET s1 == [s EXCEPT !.clientTerminated_ = TRUE, !.errAt = Len(s.dsLog)]
      S2 == IF s1.txn_ THEN sendAbortUpstream(s1)
            ELSE IF s1.upstreamSock_ THEN resetSock(s1)
            ELSE { s1 }
  IN  UNION { checkForShutdown(s2) : s2 \in S2 }

\* ProxyHandler::onEgressPaused (204-210)
onEgressPaused(s) ==
  IF s.txn_ THEN { [s EXCEPT !.usIngressPaused = TRUE] }
  ELSE IF s.upstreamSock_ THEN { [s EXCEPT !.readCB = FALSE] }
  ELSE { s }

\* ProxyHandler::onEgressResumed (212-218)
onEgressResumed(s) ==
  IF s.txn_ THEN { [s EXCEPT !.usIngressPaused = FALSE] }
  ELSE IF s.upstreamSock_ THEN { [s EXCEPT !.readCB = TRUE] }
  ELSE { s }

----------------------------------------------------------------------------
\* callbacks of the raw upstream socket

\* ProxyHandler::connectSuccess() (235-240)
connectSuccessSock(s) ==
  { [DsSend(s, <<"H">>) EXCEPT !.connectPending = FALSE, !.sockConnected = TRUE,
                             !.readCB = TRUE, !.dsIngressPaused = FALSE] }

\* ProxyHandler::connectErr (242)
connectErr(s) == connectError(s)

\* ProxyHandler::readDataAvailable (250-253)
readDataAvailable(s) == { DsSend(s, <<"B">>) }

\* readErr that keeps the failed socket
readErr_keepsSock(s) == checkForShutdown(abortDownstream(s))

\* ProxyHandler::readErr (260-265)
readErr(s) ==
  UNION { checkForShutdown(s2) : s2 \in resetSock(abortDownstream(s)) }

\* writeSuccess that returns without the shutdown check
writeSuccess_noCheck(s) ==
  LET s1 == [s EXCEPT !.upstreamEgressPaused_ = FALSE]
  IN  IF s1.downstreamIngressPaused_
        THEN onServerEgressResumed([s1 EXCEPT !.downstreamIngressPaused_ = FALSE])
        ELSE { s1 }

\* ProxyHandler::writeSuccess (267-274)
writeSuccess(s) ==
  LET s1 == [s EXCEPT !.upstreamEgressPaused_ = FALSE]
      S2 == IF s1.downstreamIngressPaused_
              THEN onServerEgressResumed([s1 EXCEPT !.downstreamIngressPaused_ = FALSE])
              ELSE { s1 }
  IN  UNION { checkForShutdown(s2) : s2 \in S2 }

\* ProxyHandler::writeErr (276-284)
writeErr(s) ==
  UNION { checkForShutdown(s2) :
            s2 \in resetSock(abortDownstream([s EXCEPT !.upstreamEgressPaused_ = FALSE])) }

----------------------------------------------------------------------------
\* the actions: one per callback the libraries deliver to a live instance

Live == alive /\ ~crashed

\* the upstream transaction still delivers ingress callbacks
TxnOpen == Live /\ txn_ /\ ~Has(usLog, "A") /\ ~usErrored

\* the raw socket still delivers read callbacks
SockReadable == Live /\ upstreamSock_ /\ sockConnected /\ readCB /\ sockStatus_ % 2 = 0

Do(S) == \E s \in S : Commit(s)

OnRequest ==
  /\ Live /\ ~clientTerminated_ /\ clientPhase = "AwaitingHeaders"
  /\ \E m \in Methods :
       Do(onRequest([Ev(cur, "onRequest") EXCEPT !.clientPhase = "AwaitingBody"], m))

OnBody ==
  /\ Live /\ ~clientTerminated_ /\ clientPhase = "AwaitingBody"
  /\ ~dsIngressPaused /\ clientBodies < MaxBody
  /\ Do(onBody([Ev(cur, "onBody") EXCEPT !.clientBodies = @ + 1]))

OnEOM ==
  /\ Live /\ ~clientTerminated_ /\ clientPhase = "AwaitingBody"
  /\ ~dsIngressPaused
  /\ \E fwd \in BOOLEAN :
       Do(onEOM([Ev(cur, "onEOM") EXCEPT !.clientPhase = "EOM"], fwd))

\* the downstream transaction detaches without error once both directions
\* ended or the handler aborted it
RequestComplete ==
  /\ Live /\ ~clientTerminated_
  /\ \/ clientPhase = "EOM" /\ Has(dsLog, "E")
     \/ Has(dsLog, "A")
  /\ Do(requestComplete(Ev(cur, "requestComplete")))

OnError ==
  /\ Live /\ ~clientTerminated_
  /\ Do(onError(Ev(cur, "onError")))

OnEgressPaused ==
  /\ Live /\ ~clientTerminated_ /\ clientPhase # "AwaitingHeaders"
  /\ Do(onEgressPaused(Ev(cur, "onEgressPaused")))

OnEgressResumed ==
  /\ Live /\ ~clientTerminated_ /\ clientPhase # "AwaitingHeaders"
  /\ Do(onEgressResumed(Ev(cur, "onEgressResumed")))

ConnectSuccess ==
  /\ Live /\ connectPending /\ ~upstreamSock_
  /\ Do(connectSuccess(Ev(cur, "connectSuccess")))

ConnectError ==
  /\ Live /\ connectPending /\ ~upstreamSock_
  /\ Do(connectError(Ev(cur, "connectError")))

OnServerHeadersComplete ==
  /\ TxnOpen /\ usPhase = "open" /\ ~usIngressPaused
  /\ Do(onServerHeadersComplete([Ev(cur, "onServerHeadersComplete") EXCEPT !.usPhase = "hdr"]))

OnServerBody ==
  /\ TxnOpen /\ usPhase = "hdr" /\ ~usIngressPaused /\ usBodies < MaxBody
  /\ Do(onServerBody([Ev(cur, "onServerBody") EXCEPT !.usBodies = @ + 1]))

OnServerEOM ==
  /\ TxnOpen /\ usPhase = "hdr" /\ ~usIngressPaused
  /\ Do(onServerEOM([Ev(cur, "onServerEOM") EXCEPT !.usPhase = "eom"]))

OnServerError ==
  /\ TxnOpen
  /\ Do(onServerError([Ev(cur, "onServerError") EXCEPT !.usErrored = TRUE]))

OnServerEgressPaused ==
  /\ TxnOpen /\ ~usEgressPaused
  /\ Do(onServerEgressPaused([Ev(cur, "onServerEgressPaused") EXCEPT !.usEgressPaused = TRUE]))

OnServerEgressResumed ==
  /\ TxnOpen /\ usEgressPaused
  /\ Do(onServerEgressResumed([Ev(cur, "onServerEgressResumed") EXCEPT !.usEgressPaused = FALSE]))

\* the upstream transaction detaches once it was aborted, failed, or both
\* directions ended
DetachServerTransaction ==
  /\ Live /\ txn_
  /\ \/ Has(usLog, "A")
     \/ usErrored
     \/ usPhase = "eom" /\ Has(usLog, "E")
  /\ Do(detachServerTransaction(Ev(cur, "detachServerTransaction")))

\* the upstream is raw-connection-backed: the socket exists while its
\* connect is outstanding
OpenUpstreamSock ==
  /\ Live /\ connectPending /\ ~upstreamSock_ /\ ~txn_
  /\ Commit([Ev(cur, "openUpstreamSock") EXCEPT !.upstreamSock_ = TRUE])

ConnectSuccessSock ==
  /\ Live /\ connectPending /\ upstreamSock_
  /\ Do(connectSuccessSock(Ev(cur, "connectSuccessSock")))

ConnectErr ==
  /\ Live /\ connectPending /\ upstreamSock_
  /\ Do(connectErr(Ev(cur, "connectErr")))

ReadDataAvailable ==
  /\ SockReadable /\ sockReads < MaxBody
  /\ Do(readDataAvailable([Ev(cur, "readDataAvailable") EXCEPT !.sockReads = @ + 1]))

ReadEOF ==
  /\ SockReadable
  /\ Do(readEOF(Ev(cur, "readEOF")))

\* a failed socket has dropped its read callback when it reports the error
ReadErr ==
  /\ SockReadable
  /\ Do(readErr([Ev(cur, "readErr") EXCEPT !.readCB = FALSE]))

WriteSuccess ==
  /\ Live /\ upstreamSock_ /\ sockConnected
  /\ Do(writeSuccess(Ev(cur, "writeSuccess")))

WriteErr ==
  /\ Live /\ upstreamSock_ /\ sockConnected
  /\ Do(writeErr([Ev(cur, "writeErr") EXCEPT !.readCB = FALSE]))

Next ==
  \/ OnRequest
  \/ OnBody
  \/ OnEOM
  \/ RequestComplete
  \/ OnError
  \/ OnEgressPaused
  \/ OnEgressResumed
  \/ ConnectSuccess
  \/ ConnectError
  \/ OnServerHeadersComplete
  \/ OnServerBody
  \/ OnServerEOM
  \/ OnServerError
  \/ OnServerEgressPaused
  \/ OnServerEgressResumed
  \/ DetachServerTransaction
  \/ OpenUpstreamSock
  \/ ConnectSuccessSock
  \/ ConnectErr
  \/ ReadDataAvailable
  \/ ReadEOF
  \/ ReadErr
  \/ WriteSuccess
  \/ WriteErr

Spec == Init /\ [][Next]_vars

\* event delivery is fair: an outstanding connect completes, a finished
\* downstream or upstream transaction detaches.  Errors are never forced.
FairSpec ==
  /\ Spec
  /\ WF_vars(RequestComplete)
  /\ WF_vars(DetachServerTransaction)
  /\ WF_vars(ConnectSuccess \/ ConnectError \/ ConnectSuccessSock \/ ConnectErr)

TypeOK ==
  /\ sockStatus_ \in 0..3
  /\ destroyCount \in 0..MaxDestroy
  /\ connectCalls \in 0..1

----------------------------------------------------------------------------
\* Properties

\* C1: a live instance is destroyed only by checkForShutdown, and only when
\* clientTerminated is true, no upstream transaction is attached, and the
\* raw socket is absent or is fully closed and not egress-paused.
C1_DestroyOnlyWhenQuiescent ==
  [][ (alive /\ ~alive') =>
        /\ checks' >= 1
        /\ clientTerminated_'
        /\ ~txn_'
        /\ (~upstreamSock_' \/ (sockStatus_' = CLOSED /\ ~upstreamEgressPaused_')) ]_vars

\* the instance was destroyed by the check that the transaction's detach ran
C1_Witness ==
  ~alive /\ destroyCount = 1 /\ lastEvent = "detachServerTransaction" /\ clientTerminated_

\* C2: the instance is destroyed at most once and checkForShutdown never
\* runs on an instance that was already destroyed.
C2_DestroyedAtMostOnce == destroyCount <= 1 /\ ~uaf

\* the upstream side of the request has finished
UpstreamFinished ==
  ~txn_ /\ (~upstreamSock_ \/ sockStatus_ % 2 = READS_SHUTDOWN)

\* C3: once the client terminated and the upstream side finished, the
\* instance is eventually destroyed.
C3_LeakFree == (clientTerminated_ /\ UpstreamFinished) ~> ~alive

\* C4: a request whose forward decision is false never reaches the
\* connector and gets exactly one immediate response.
C4_NoForwardOneResponse ==
  (clientPhase = "EOM" /\ ~need_forward_) => (connectCalls = 0 /\ respCount = 1)

\* C5: a request whose method is neither GET nor POST gets an immediate
\* response and never reaches the connector.
C5_OtherMethodNoConnect ==
  (method = "OTHER") => (respCount >= 1 /\ connectCalls = 0)

\* C6: on the upstream transaction sendHeaders precedes every sendBody and
\* sendEOM, and every sendBody precedes sendEOM.
C6_UpstreamOrder ==
  \A i \in 1..Len(usLog) :
     /\ usLog[i] \in {"B", "E"} => \E j \in 1..(i - 1) : usLog[j] = "H"
     /\ usLog[i] = "B" => \A j \in 1..(i - 1) : usLog[j] # "E"

\* a forward on which headers, body and EOM all went upstream
C6_Witness == usLog = <<"H", "B", "E">> /\ txn_

\* C7: when the connect succeeds after onEOM returned, the upstream
\* transaction has received headers, the buffered body and EOM.
C7_BufferedRequestSent ==
  (lastEvent = "connectSuccess") =>
     /\ Has(usLog, "H")
     /\ clientBodies > 0 => Has(usLog, "B")
     /\ Has(usLog, "E")

\* C8: while the upstream transaction is egress-paused and the client is
\* live, downstream ingress stays paused and no client body goes upstream.
C8_Backpressure ==
  [][ (alive' /\ txn_' /\ usEgressPaused' /\ ~clientTerminated_') =>
        /\ dsIngressPaused'
        /\ usEgressPaused => Count(usLog', "B") = Count(usLog, "B") ]_vars

\* another client event ran while the upstream was egress-paused
C8_Witness ==
  /\ alive /\ txn_ /\ usEgressPaused /\ ~clientTerminated_ /\ dsIngressPaused
  /\ lastEvent = "onEgressResumed"

\* the step is the onError callback
OnErrorStep == errAt = -1 /\ errAt' # -1

\* C9: onError sets clientTerminated, aborts the attached transaction,
\* releases the raw socket and runs the shutdown check; afterwards nothing
\* is sent downstream and the instance is eventually destroyed.
C9_ClientError ==
  /\ [][ OnErrorStep =>
           /\ clientTerminated_'
           /\ txn_ => Has(usLog', "A")
           /\ upstreamSock_ => ~upstreamSock_'
           /\ checks' >= 1 ]_vars
  /\ [](errAt # -1 => Len(dsLog) = errAt)
  /\ ((errAt # -1) ~> ~alive)

\* the step is the connect-failure callback
ConnectErrorStep ==
  connectPending /\ ~connectPending' /\ lastEvent' \in {"connectError", "connectErr"}

\* C10: a connect failure sends exactly one gateway-error response to a
\* live client and none to a terminated one, and runs the shutdown check
\* in both cases.
C10_ConnectFailure ==
  [][ ConnectErrorStep =>
        /\ ~clientTerminated_ => (gwCount' = gwCount + 1 /\ dsLog' = dsLog \o <<"H", "E">>)
        /\ clientTerminated_ => dsLog' = dsLog
        /\ checks' >= 1 ]_vars

\* C11: end-of-message is sent on the downstream stream at most once.
C11_OneDownstreamEOM == Count(dsLog, "E") <= 1

\* the step delivers a response body chunk (transaction or raw socket)
ServerBodyStep ==
  \/ usBodies' = usBodies + 1 /\ ~crashed'
  \/ sockReads' = sockReads + 1

\* C12: towards the client, headers precede every body, each body chunk is
\* forwarded in the step that receives it, and neither body nor EOM follows
\* the downstream EOM.
C12_DownstreamOrder ==
  /\ [](\A i \in 1..Len(dsLog) :
          /\ dsLog[i] = "B" => \E j \in 1..(i - 1) : dsLog[j] = "H"
          /\ dsLog[i] \in {"B", "E"} => \A j \in 1..(i - 1) : dsLog[j] # "E")
  /\ [][ ServerBodyStep => dsLog' = dsLog \o <<"B">> ]_vars

\* C13: a synthesized response is sent only while no response headers have
\* gone downstream; afterwards an error sends at most an abort, so response
\* headers go downstream at most once.
C13_NoSecondHeaders ==
  /\ [][ (respCount' > respCount \/ gwCount' > gwCount) => ~Has(dsLog, "H") ]_vars
  /\ [](Count(dsLog, "H") <= 1)

\* C14: with a live client, downstreamIngressPaused_ is true exactly when
\* downstream ingress is paused for an outstanding upstream egress pause.
C14_FlagTracksBackpressure ==
  (alive /\ ~clientTerminated_) =>
     (downstreamIngressPaused_ <=> (txn_ /\ usEgressPaused /\ dsIngressPaused))

C16_SocketError ==
  [][ lastEvent' \in {"readErr", "writeErr"} =>
        /\ ~clientTerminated_ => dsLog' = dsLog \o <<"A">>
        /\ clientTerminated_ => dsLog' = dsLog
        /\ ~upstreamSock_'
        /\ lastEvent' = "writeErr" => ~upstreamEgressPaused_'
        /\ checks' >= 1
        /\ (clientTerminated_ /\ ~txn_) => (~alive' /\ destroyCount' = destroyCount + 1)
        /\ ~clientTerminated_ => (alive' /\ ~clientTerminated_') ]_vars

\* a socket error after the client terminated destroyed the instance
C16_Witness ==
  lastEvent \in {"readErr", "writeErr"} /\ ~alive /\ destroyCount = 1 /\ ~Has(dsLog, "A")

\* C17: the detach of the upstream transaction clears txn_, releases the
\* session handle and runs the shutdown check; the instance is destroyed in
\* the step exactly when the client had terminated and no unclosed raw
\* socket remains, and otherwise survives without transaction and session.
C17_Detach ==
  [][ lastEvent' = "detachServerTransaction" =>
        /\ ~txn_'
        /\ checks' >= 1
        /\ ~alive' <=> (clientTerminated_ /\ (~upstreamSock_ \/ sockStatus_ = CLOSED))
        /\ alive' => ~session_' ]_vars

\* C18: onServerError sends an abort downstream exactly when the client is
\* live, sends no synthetic response, changes none of clientTerminated_,
\* txn_, upstreamSock_, sockStatus_ and the pause flags, and neither runs
\* the shutdown check nor destroys the instance.
C18_ServerErrorFrame ==
  [][ lastEvent' = "onServerError" =>
        /\ ~clientTerminated_ => dsLog' = dsLog \o <<"A">>
        /\ clientTerminated_ => dsLog' = dsLog
        /\ respCount' = respCount /\ gwCount' = gwCount
        /\ UNCHANGED << clientTerminated_, txn_, session_, upstreamSock_, sockStatus_,
                        upstreamEgressPaused_, downstreamIngressPaused_, dsIngressPaused >>
        /\ checks' = 0
        /\ alive' /\ destroyCount' = destroyCount ]_vars

\* the upstream transaction failed while the client was live
C18_Witness ==
  /\ lastEvent = "onServerError" /\ alive /\ txn_ /\ ~clientTerminated_
  /\ Len(dsLog) >= 1 /\ dsLog[Len(dsLog)] = "A"

\* C19: CHECK(!clientTerminated_) never fails: no upstream headers or
\* body callback runs after clientTerminated_ became true.
C19_ChecksHold == ~crashed

\* C20: the instance is never destroyed while a connect attempt is
\* outstanding.
C20_AliveWhileConnecting == connectPending => alive

====
